---- MODULE Spec2Model ----
(***************************************************************************)
(* Model of the chat agent of src/agent-code/agent.py: the process-wide    *)
(* map conversation_histories, the /chat handler with its two streaming    *)
(* generators (generate_with_tool_call, generate), execute_tool and the    *)
(* /clear handler.                                                         *)
(*                                                                         *)
(* Each request slot of Requests is one handler thread of the threaded     *)
(* WSGI server.  A handler is cut into steps at the places where it        *)
(* blocks (a model or tool round trip, a yield that hands an event to the  *)
(* server for writing) and at every access to conversation_histories, the  *)
(* only state handlers share.  The code takes no lock, so steps of         *)
(* different handlers interleave freely.                                   *)
(*                                                                         *)
(* Text is modelled as a sequence of tokens; string concatenation is \o.   *)
(***************************************************************************)
EXTENDS Integers, Sequences, FiniteSets, TLC

\* ------------------------------------------------------------------------
\* Program constants
\* ------------------------------------------------------------------------

\* agent.py:523-524  "if len(...) > 20: ... [-20:]"
RetentionLimit == 20

\* agent.py:423  "conversation_histories[session_id][-10:]"
WindowSize == 10

\* ------------------------------------------------------------------------
\* Bounds of the model
\* ------------------------------------------------------------------------

\* number of /chat requests accepted over a behaviour
MaxSubmits == 2

\* number of chunks one streamed completion delivers at most
MaxChunks == 2

\* number of tool calls in one model response at most
MaxToolCalls == 2

\* number of responses with tool calls the model backend gives over a
\* behaviour
MaxToolTurns == 1

\* number of /clear requests over a behaviour
MaxClears == 1

\* number of /execute requests to the gcloud helper over a behaviour
MaxExecutes == 2

\* length of the conversation a session may already hold at the start:
\* the store after PrefillTurns completed, non-overlapping direct turns
PrefillTurns == 9

Requests == {"r1", "r2"}
Sessions == {"s1", "s2"}

\* the text a client posts: r1 and r2 post different texts; "" is the
\* empty message of a request without 'message'
Utterance(t) == IF t = "r1" THEN <<"u1">> ELSE <<"u2">>

\* the session cookie a request may carry
SessionsOf(t) == IF t = "r1" THEN {"s1"} ELSE Sessions

\* the text of the k-th chunk of a streamed completion, when it has any
DeltaTokens == <<"a", "b", "c", "d">>

DeltaText(k) == <<DeltaTokens[k]>>

None == "None"

\* ------------------------------------------------------------------------
\* Pure functions
\* ------------------------------------------------------------------------

\* python's seq[-n:]
LastN(seq, n) ==
    IF Len(seq) <= n THEN seq ELSE SubSeq(seq, Len(seq) - n + 1, Len(seq))

\* agent.py:386-419, the fixed system prompt
SystemMessage == [role |-> "system", content |-> <<"system_prompt">>]

UserMessage(text) == [role |-> "user", content |-> text]

\* faulty variant: the assistant message is stored without the streamed text
AssistantMessageBlank(text) == [role |-> "assistant", content |-> <<>>]

AssistantMessage(text) == [role |-> "assistant", content |-> text]

\* json.loads on a tool call's argument payload (agent.py:472): the
\* payloads the model may send and what they parse to.  A dict is a
\* function from its keys; a payload that is not JSON raises.

json_loads(payload) ==
    CASE payload = "{}" -> [ok |-> TRUE, value |-> [k \in {} |-> None]]
      [] payload = "{\"name\": \"b1\"}" ->
             [ok |-> TRUE, value |-> [k \in {"name"} |-> "b1"]]
      [] OTHER -> [ok |-> FALSE, value |-> [k \in {} |-> None]]

\* dict.get(key, default)
DictGet(d, key, default) == IF key \in DOMAIN d THEN d[key] ELSE default


\* ------------------------------------------------------------------------
\* Tool registry and executor
\* ------------------------------------------------------------------------

\* agent.py:238-324, the names of the tools catalogue
RegisteredTools ==
    {"get_gcp_instances", "list_gcp_disks", "list_gcp_buckets",
     "estimate_gcp_cost", "create_gcp_bucket", "create_gcp_instance"}

\* agent.py:35-69 (and 71-158 alike): a read-only handler makes one GET to
\* the helper service; any failure is caught and returned as text.
\* net is the outcome of the outbound call.
ListHandler(name, net) ==
    [content |-> IF net = "ok" THEN <<name, "result">> ELSE <<"Error", name>>,
     outbound |-> TRUE]

\* agent.py:160-188 / 190-223: a create handler returns early, without an
\* outbound call, when the name is missing or a setting is empty.
CreateHandler(tool, name, where, kind, net) ==
    IF name = None
    THEN [content |-> <<"Error", "name is required">>, outbound |-> FALSE]
    ELSE IF where = None \/ kind = None
    THEN [content |-> <<"please specify", tool>>, outbound |-> FALSE]
    ELSE [content |-> IF net = "ok" THEN <<tool, "created", name>>
                                    ELSE <<"Error", tool>>,
          outbound |-> TRUE]

UnknownToolNotice(tool_name) == <<"I don't have the capability", tool_name>>

\* faulty variant: a name that is not registered falls through to a handler
execute_tool_fallthrough(tool_name, arguments, net) ==
    IF tool_name = "create_gcp_bucket" \/ tool_name = "create_gcp_instance"
    THEN CreateHandler(tool_name, DictGet(arguments, "name", None),
                       "US", "STANDARD", net)
    ELSE ListHandler(tool_name, net)

\* agent.py:326-348
execute_tool(tool_name, arguments, net) ==
    CASE tool_name \in {"get_gcp_instances", "list_gcp_disks",
                        "list_gcp_buckets", "estimate_gcp_cost"} ->
             ListHandler(tool_name, net)
      [] tool_name = "create_gcp_bucket" ->
             CreateHandler(tool_name, DictGet(arguments, "name", None),
                           DictGet(arguments, "location", "US"),
                           DictGet(arguments, "storage_class", "STANDARD"), net)
      [] tool_name = "create_gcp_instance" ->
             CreateHandler(tool_name, DictGet(arguments, "name", None),
                           DictGet(arguments, "zone", "us-central1-a"),
                           DictGet(arguments, "machine_type", "e2-micro"), net)
      [] OTHER ->
             [content |-> UnknownToolNotice(tool_name), outbound |-> FALSE]

\* ------------------------------------------------------------------------
\* What the model backend may answer
\* ------------------------------------------------------------------------

\* the function part of one tool call of a response
\* (a registered tool with arguments; a name that is not registered, with
\* a payload that parses and with one that does not; a registered tool
\* with a payload that is not JSON)
CallChoices ==
    {[name |-> "create_gcp_bucket", arguments |-> "{\"name\": \"b1\"}"],
     [name |-> "delete_gcp_instance", arguments |-> "{}"],
     [name |-> "delete_gcp_instance", arguments |-> "{bad"],
     [name |-> "get_gcp_instances", arguments |-> "{bad"]}

CallIds == <<"call_1", "call_2", "call_3", "call_4">>

\* response_message.tool_calls: the calls carry the ids the backend gave
\* them, unique within the response
ToolCallBatches ==
    UNION {{[i \in 1..n |-> [id |-> CallIds[i], name |-> f[i].name,
                             arguments |-> f[i].arguments]] :
              f \in [1..n -> CallChoices]} : n \in 1..MaxToolCalls}

\* the assistant message recording the calls, agent.py:454-467
ToolCallMessage(tool_calls) ==
    [role |-> "assistant", content |-> <<>>, tool_calls |-> tool_calls]

\* faulty variant: every tool message carries the id of the first call
ToolMessageFirstId(id, text) ==
    [role |-> "tool", tool_call_id |-> CallIds[1], content |-> text]

\* agent.py:485-489
ToolMessage(id, text) ==
    [role |-> "tool", tool_call_id |-> id, content |-> text]

\* the store after n completed direct turns: user, assistant, user, ...
HistTokens ==
    <<"h1", "h2", "h3", "h4", "h5", "h6", "h7", "h8", "h9", "h10", "h11",
      "h12", "h13", "h14", "h15", "h16", "h17", "h18", "h19", "h20", "h21",
      "h22", "h23", "h24">>

Prefill(n) ==
    [i \in 1..(2 * n) |->
        IF i % 2 = 1 THEN UserMessage(<<HistTokens[i]>>)
                     ELSE AssistantMessage(<<HistTokens[i]>>)]

\* ------------------------------------------------------------------------
\* State
\* ------------------------------------------------------------------------

VARIABLES
    conversation_histories, \* agent.py:27, session id -> list of messages
    pc,                     \* where each handler thread stands
    outcome,                \* how the thread's request ended
    session_id,             \* agent.py:370
    user_message,           \* agent.py:360
    messages,               \* agent.py:385, the request's working history
    tool_calls,             \* response_message.tool_calls, agent.py:441
    idx,                    \* position of the loop of agent.py:470
    full_response,          \* agent.py:503 / 546
    chunks,                 \* chunks read from the streamed completion
    sliced,                 \* right-hand side of agent.py:524 / 559
    events,                 \* what the client has received of the stream
    tool_trace,             \* execute_tool invocations of the request
    history_at_start,       \* the session's conversation when the request began
    submits,                \* /chat requests accepted so far
    tool_turns,             \* responses with tool calls so far
    clears                  \* /clear requests so far

\* the gcloud helper service, src/gcloud-helper/helper.py
VARIABLES
    helper_pc,              \* where the /execute handler stands
    data,                   \* helper.py:24, the body of the request
    command,                \* helper.py:30
    subprocess_runs,        \* the argument vectors subprocess.run was given
    response,               \* what the handler answered
    executes                \* /execute requests so far

agent_vars ==
    <<conversation_histories, pc, outcome, session_id, user_message,
      messages, tool_calls, idx, full_response, chunks, sliced, events,
      tool_trace, history_at_start, submits, tool_turns, clears>>

helper_vars ==
    <<helper_pc, data, command, subprocess_runs, response, executes>>

vars == <<agent_vars, helper_vars>>

counters == <<submits, tool_turns, clears>>

Stored(s) ==
    IF s \in DOMAIN conversation_histories
    THEN conversation_histories[s] ELSE <<>>

\* faulty variant: one list shared by all sessions
SetHistoryShared(s, value) ==
    conversation_histories' =
        [k \in DOMAIN conversation_histories \cup {s} |-> value]

\* conversation_histories[s] = value
SetHistory(s, value) ==
    conversation_histories' =
        [k \in DOMAIN conversation_histories \cup {s} |->
            IF k = s THEN value ELSE conversation_histories[k]]

\* A fresh process has an empty map.  The second initial state is the map
\* after PrefillTurns completed direct turns of session s1, so that the
\* retention limit is within reach of MaxSubmits further turns.
Init ==
    /\ conversation_histories \in
           {[k \in {} |-> <<>>], [k \in {"s1"} |-> Prefill(PrefillTurns)]}
    /\ pc = [t \in Requests |-> "idle"]
    /\ outcome = [t \in Requests |-> None]
    /\ session_id = [t \in Requests |-> None]
    /\ user_message = [t \in Requests |-> <<>>]
    /\ messages = [t \in Requests |-> <<>>]
    /\ tool_calls = [t \in Requests |-> <<>>]
    /\ idx = [t \in Requests |-> 0]
    /\ full_response = [t \in Requests |-> <<>>]
    /\ chunks = [t \in Requests |-> 0]
    /\ sliced = [t \in Requests |-> <<>>]
    /\ events = [t \in Requests |-> <<>>]
    /\ tool_trace = [t \in Requests |-> <<>>]
    /\ history_at_start = [t \in Requests |-> <<>>]
    /\ submits = 0
    /\ tool_turns = 0
    /\ clears = 0
    /\ helper_pc = "idle"
    /\ data = None
    /\ command = <<>>
    /\ subprocess_runs = <<>>
    /\ response = None
    /\ executes = 0

\* ------------------------------------------------------------------------
\* The /chat handler, agent.py:355-571
\* ------------------------------------------------------------------------

\* (a step of the agent leaves the helper, another process, as it is)
Finish(t, how) ==
    /\ pc' = [pc EXCEPT ![t] = "finished"]
    /\ outcome' = [outcome EXCEPT ![t] = how]
    /\ UNCHANGED helper_vars

Goto(t, label) ==
    /\ pc' = [pc EXCEPT ![t] = label]
    /\ UNCHANGED outcome
    /\ UNCHANGED helper_vars

Free(t) == pc[t] \in {"idle", "finished"}

\* agent.py:359-373.  A thread takes a /chat request of session s.  An
\* empty message is answered 400 at once; otherwise the thread looks the
\* session up in conversation_histories.
Receive(t, s, text) ==
    /\ Free(t)
    /\ submits < MaxSubmits
    /\ submits' = submits + 1
    /\ session_id' = [session_id EXCEPT ![t] = s]
    /\ user_message' = [user_message EXCEPT ![t] = text]
    /\ messages' = [messages EXCEPT ![t] = <<>>]
    /\ tool_calls' = [tool_calls EXCEPT ![t] = <<>>]
    /\ idx' = [idx EXCEPT ![t] = 0]
    /\ full_response' = [full_response EXCEPT ![t] = <<>>]
    /\ chunks' = [chunks EXCEPT ![t] = 0]
    /\ sliced' = [sliced EXCEPT ![t] = <<>>]
    /\ events' = [events EXCEPT ![t] = <<>>]
    /\ tool_trace' = [tool_trace EXCEPT ![t] = <<>>]
    /\ history_at_start' = [history_at_start EXCEPT ![t] = Stored(s)]
    /\ IF text = <<>>
       THEN Finish(t, "bad_request")
       ELSE /\ pc' = [pc EXCEPT ![t] =
                        IF s \in DOMAIN conversation_histories
                        THEN "build" ELSE "init_history"]
            /\ outcome' = [outcome EXCEPT ![t] = None]
            /\ UNCHANGED helper_vars
    /\ UNCHANGED <<conversation_histories, tool_turns, clears>>

\* agent.py:374
InitHistory(t) ==
    /\ pc[t] = "init_history"
    /\ SetHistory(session_id[t], <<>>)
    /\ Goto(t, "build")
    /\ UNCHANGED <<session_id, user_message, messages, tool_calls, idx,
                   full_response, chunks, sliced, events, tool_trace,
                   history_at_start, counters>>

\* faulty variant: the first 10 stored messages instead of the last
WindowOldest(history) ==
    SubSeq(history, 1,
           IF Len(history) < WindowSize THEN Len(history) ELSE WindowSize)

\* agent.py:423, the stored messages handed to the model
Window(history) == LastN(history, WindowSize)

\* faulty variant: the user's message is stored as soon as the request's
\* messages are built
BuildMessagesSavesUser(t) ==
    /\ pc[t] = "build"
    /\ messages' = [messages EXCEPT ![t] =
           <<SystemMessage>>
           \o Window(conversation_histories[session_id[t]])
           \o <<UserMessage(user_message[t])>>]
    /\ SetHistory(session_id[t],
                  Append(conversation_histories[session_id[t]],
                         UserMessage(user_message[t])))
    /\ Goto(t, "call_llm")
    /\ UNCHANGED <<session_id, user_message, tool_calls, idx, full_response,
                   chunks, sliced, events, tool_trace, history_at_start,
                   counters>>

\* agent.py:385-426: system prompt, the last 10 stored messages, the
\* user's message
BuildMessages(t) ==
    /\ pc[t] = "build"
    /\ messages' = [messages EXCEPT ![t] =
           <<SystemMessage>>
           \o Window(conversation_histories[session_id[t]])
           \o <<UserMessage(user_message[t])>>]
    /\ Goto(t, "call_llm")
    /\ UNCHANGED <<conversation_histories, session_id, user_message,
                   tool_calls, idx, full_response, chunks, sliced, events,
                   tool_trace, history_at_start, counters>>

\* the three requests the handler sends to the model backend
\* agent.py:430-437
DecisionRequest(t) ==
    [messages |-> messages[t], tools |-> TRUE, stream |-> FALSE]

\* agent.py:493-499
FinalRequest(t) ==
    [messages |-> messages[t], tools |-> FALSE, stream |-> TRUE]

\* agent.py:532-540
DirectRequest(t) ==
    [messages |-> messages[t], tools |-> TRUE, stream |-> TRUE]

\* faulty variant: when the tool-decision call raises, the handler stores the
\* user's message before it answers 500
CallLLMErrorSaves(t) ==
    /\ pc[t] = "call_llm"
    /\ \/ /\ Finish(t, "error")
          /\ SetHistory(session_id[t],
                        Append(conversation_histories[session_id[t]],
                               UserMessage(user_message[t])))
          /\ UNCHANGED <<tool_calls, tool_turns>>
       \/ \E batch \in ToolCallBatches :
             /\ tool_turns < MaxToolTurns
             /\ tool_turns' = tool_turns + 1
             /\ tool_calls' = [tool_calls EXCEPT ![t] = batch]
             /\ Goto(t, "tool_status")
             /\ UNCHANGED conversation_histories
       \/ /\ Goto(t, "direct_call")
          /\ UNCHANGED <<conversation_histories, tool_calls, tool_turns>>
    /\ UNCHANGED <<session_id, user_message, messages, idx, full_response,
                   chunks, sliced, events, tool_trace, history_at_start,
                   submits, clears>>

\* agent.py:428-444 and 566-571.  The blocking tool-decision call: it
\* raises (answered 500), or answers with tool calls (the handler returns
\* the streaming response of generate_with_tool_call), or without.
CallLLM(t) ==
    /\ pc[t] = "call_llm"
    /\ \/ /\ Finish(t, "error")
          /\ UNCHANGED <<tool_calls, tool_turns>>
       \/ \E batch \in ToolCallBatches :
             /\ tool_turns < MaxToolTurns
             /\ tool_turns' = tool_turns + 1
             /\ tool_calls' = [tool_calls EXCEPT ![t] = batch]
             /\ Goto(t, "tool_status")
       \/ /\ Goto(t, "direct_call")
          /\ UNCHANGED <<tool_calls, tool_turns>>
    /\ UNCHANGED <<conversation_histories, session_id, user_message,
                   messages, idx, full_response, chunks, sliced, events,
                   tool_trace, history_at_start, submits, clears>>

\* faulty variant: when the streaming call raises, the handler starts over at
\* the tool-decision call
DirectCallRetries(t) ==
    /\ pc[t] = "direct_call"
    /\ \/ /\ Goto(t, "call_llm")
          /\ UNCHANGED messages
       \/ /\ Goto(t, "direct_status")
          /\ messages' = [messages EXCEPT ![t] = <<>>]
    /\ UNCHANGED <<conversation_histories, session_id, user_message,
                   tool_calls, idx, full_response, chunks, sliced, events,
                   tool_trace, history_at_start, counters>>

\* agent.py:530-540 and 564-571.  The streaming call of the direct path is
\* made inside the handler's try: it raises (500) or the handler returns
\* the streaming response of generate.  The working history is not read
\* after this call: the model drops it here.
DirectCall(t) ==
    /\ pc[t] = "direct_call"
    /\ \/ Finish(t, "error")
       \/ Goto(t, "direct_status")
    /\ messages' = [messages EXCEPT ![t] = <<>>]
    /\ UNCHANGED <<conversation_histories, session_id, user_message,
                   tool_calls, idx, full_response, chunks, sliced, events,
                   tool_trace, history_at_start, counters>>

\* A generator yields an event and the server writes it to the client.
\* The client may have closed the connection at any time since the last
\* write: then this write fails and the server closes the generator,
\* which ends at the yield.  Otherwise the client has the event and the
\* generator goes on to label.
Delivered(t, event, label) ==
    /\ events' = [events EXCEPT ![t] = Append(@, event)]
    /\ Goto(t, label)

ClientGone(t) ==
    /\ Finish(t, "aborted")
    /\ UNCHANGED events

ToolNames(batch) == [i \in 1..Len(batch) |-> batch[i].name]

\* agent.py:448-450: the text "Calling tool: " followed by the names
ToolStatusEvent(batch) ==
    [kind |-> "reasoning", data |-> <<"Calling tool:">> \o ToolNames(batch)]

\* agent.py:544: a fixed text
DirectStatusEvent ==
    [kind |-> "reasoning",
     data |-> <<"Responding directly (no tools needed)">>]

ContentEvent(content) == [kind |-> "content", data |-> content]

DoneEvent == [kind |-> "done", data |-> <<>>]

\* agent.py:446-467: the status event naming the tools, then the assistant
\* message recording the calls is appended to the working history
ToolStatus(t) ==
    /\ pc[t] = "tool_status"
    /\ \/ /\ ClientGone(t)
          /\ UNCHANGED <<messages, idx>>
       \/ /\ Delivered(t, ToolStatusEvent(tool_calls[t]), "tool_loop")
          /\ messages' = [messages EXCEPT ![t] =
                 Append(@, ToolCallMessage(tool_calls[t]))]
          /\ idx' = [idx EXCEPT ![t] = 1]
    /\ UNCHANGED <<conversation_histories, session_id, user_message,
                   tool_calls, full_response, chunks, sliced, tool_trace,
                   history_at_start, counters>>

\* agent.py:470-489, one iteration: parse the arguments, run the tool,
\* append its result.  json.loads raising ends the generator: the response
\* breaks off.
ToolExec(t) ==
    /\ pc[t] = "tool_loop"
    /\ idx[t] <= Len(tool_calls[t])
    /\ LET tool_call == tool_calls[t][idx[t]]
           function_args == json_loads(tool_call.arguments)
       IN  IF ~function_args.ok
           THEN /\ Finish(t, "stream_error")
                /\ UNCHANGED <<messages, idx, tool_trace>>
           ELSE \E net \in {"ok", "fail"} :
                  LET tool_result ==
                          execute_tool(tool_call.name, function_args.value, net)
                  IN  /\ tool_trace' = [tool_trace EXCEPT ![t] =
                             Append(@, [id |-> tool_call.id,
                                        name |-> tool_call.name,
                                        outbound |-> tool_result.outbound])]
                      /\ messages' = [messages EXCEPT ![t] =
                             Append(@, ToolMessage(tool_call.id,
                                                   tool_result.content))]
                      /\ idx' = [idx EXCEPT ![t] = @ + 1]
                      /\ Goto(t, "tool_loop")
    /\ UNCHANGED <<conversation_histories, session_id, user_message,
                   tool_calls, full_response, chunks, sliced, events,
                   history_at_start, counters>>

\* faulty variant: after the loop the handler goes back to the tool-decision call
FinalCallLoops(t) ==
    /\ pc[t] = "tool_loop"
    /\ idx[t] > Len(tool_calls[t])
    /\ Goto(t, "call_llm")
    /\ UNCHANGED <<conversation_histories, session_id, user_message,
                   messages, tool_calls, idx, full_response, chunks, sliced,
                   events, tool_trace, history_at_start, counters>>

\* agent.py:491-499: after the loop, the streaming call for the final
\* answer; it raises inside the generator or the stream starts.  The
\* working history and the calls are not read after this call: the model
\* drops them here.
FinalCall(t) ==
    /\ pc[t] = "tool_loop"
    /\ idx[t] > Len(tool_calls[t])
    /\ \/ Finish(t, "stream_error")
       \/ Goto(t, "stream")
    /\ messages' = [messages EXCEPT ![t] = <<>>]
    /\ tool_calls' = [tool_calls EXCEPT ![t] = <<>>]
    /\ tool_trace' = [tool_trace EXCEPT ![t] = <<>>]
    /\ idx' = [idx EXCEPT ![t] = 0]
    /\ UNCHANGED <<conversation_histories, session_id, user_message,
                   full_response, chunks, sliced, events, history_at_start,
                   counters>>

\* faulty variant: the generator starts with the stream, without the status event
DirectStatusSilent(t) ==
    /\ pc[t] = "direct_status"
    /\ Goto(t, "stream")
    /\ UNCHANGED <<conversation_histories, session_id, user_message,
                   messages, tool_calls, idx, full_response, chunks, sliced,
                   events, tool_trace, history_at_start, counters>>

\* agent.py:542-544
DirectStatus(t) ==
    /\ pc[t] = "direct_status"
    /\ \/ ClientGone(t)
       \/ Delivered(t, DirectStatusEvent, "stream")
    /\ UNCHANGED <<conversation_histories, session_id, user_message,
                   messages, tool_calls, idx, full_response, chunks, sliced,
                   tool_trace, history_at_start, counters>>

\* agent.py:505-513 / 547-551: the next chunk of the stream; one without
\* content is skipped, otherwise it is added to full_response and yielded
StreamChunk(t) ==
    /\ pc[t] = "stream"
    /\ chunks[t] < MaxChunks
    /\ chunks' = [chunks EXCEPT ![t] = @ + 1]
    /\ \/ /\ Goto(t, "stream")
          /\ UNCHANGED <<full_response, events>>
       \/ LET content == DeltaText(chunks[t] + 1)
          IN  /\ full_response' = [full_response EXCEPT ![t] = @ \o content]
              /\ \/ ClientGone(t)
                 \/ Delivered(t, ContentEvent(content), "stream")
    /\ UNCHANGED <<conversation_histories, session_id, user_message,
                   messages, tool_calls, idx, sliced, tool_trace,
                   history_at_start, counters>>

\* the stream raises while being read (backend or network failure)
StreamFail(t) ==
    /\ pc[t] = "stream"
    /\ Finish(t, "stream_error")
    /\ UNCHANGED <<conversation_histories, session_id, user_message,
                   messages, tool_calls, idx, full_response, chunks, sliced,
                   events, tool_trace, history_at_start, counters>>

\* agent.py:519 / 554: the stream has ended; the user message is appended
\* (the chunk count is of no use from here on)
AppendUser(t) ==
    /\ pc[t] = "stream"
    /\ SetHistory(session_id[t],
                  Append(conversation_histories[session_id[t]],
                         UserMessage(user_message[t])))
    /\ Goto(t, "append_assistant")
    /\ chunks' = [chunks EXCEPT ![t] = 0]
    /\ UNCHANGED <<session_id, user_message, messages, tool_calls, idx,
                   full_response, sliced, events, tool_trace,
                   history_at_start, counters>>

\* faulty variant: an answer without text is not stored
AppendAssistantIfText(t) ==
    /\ pc[t] = "append_assistant"
    /\ IF full_response[t] # <<>>
       THEN SetHistory(session_id[t],
                       Append(conversation_histories[session_id[t]],
                              AssistantMessage(full_response[t])))
       ELSE UNCHANGED conversation_histories
    /\ Goto(t, "limit")
    /\ UNCHANGED <<session_id, user_message, messages, tool_calls, idx,
                   full_response, chunks, sliced, events, tool_trace,
                   history_at_start, counters>>

\* agent.py:520 / 555
AppendAssistant(t) ==
    /\ pc[t] = "append_assistant"
    /\ SetHistory(session_id[t],
                  Append(conversation_histories[session_id[t]],
                         AssistantMessage(full_response[t])))
    /\ Goto(t, "limit")
    /\ UNCHANGED <<session_id, user_message, messages, tool_calls, idx,
                   full_response, chunks, sliced, events, tool_trace,
                   history_at_start, counters>>

\* faulty variant: the test lets two more messages through
OverLimitLate(history) == Len(history) > RetentionLimit + 2

\* agent.py:523 / 558, the test
OverLimit(history) == Len(history) > RetentionLimit

\* faulty variant: the slice keeps the first 20 messages
RetainedOldest(history) == SubSeq(history, 1, RetentionLimit)

\* agent.py:524 / 559, the right-hand side
Retained(history) == LastN(history, RetentionLimit)

\* agent.py:523-524 / 558-559: the test and the slice
LimitCheck(t) ==
    /\ pc[t] = "limit"
    /\ IF OverLimit(conversation_histories[session_id[t]])
       THEN /\ sliced' = [sliced EXCEPT ![t] =
                   Retained(conversation_histories[session_id[t]])]
            /\ Goto(t, "limit_write")
       ELSE /\ Goto(t, "yield_done")
            /\ UNCHANGED sliced
    /\ UNCHANGED <<conversation_histories, session_id, user_message,
                   messages, tool_calls, idx, full_response, chunks, events,
                   tool_trace, history_at_start, counters>>

\* agent.py:524 / 559, the assignment
LimitWrite(t) ==
    /\ pc[t] = "limit_write"
    /\ SetHistory(session_id[t], sliced[t])
    /\ sliced' = [sliced EXCEPT ![t] = <<>>]
    /\ Goto(t, "yield_done")
    /\ UNCHANGED <<session_id, user_message, messages, tool_calls, idx,
                   full_response, chunks, events, tool_trace,
                   history_at_start, counters>>

\* faulty variant: the done event is written twice
YieldDoneTwice(t) ==
    /\ pc[t] = "yield_done"
    /\ \/ ClientGone(t)
       \/ /\ events' = [events EXCEPT ![t] = @ \o <<DoneEvent, DoneEvent>>]
          /\ Finish(t, "done")
    /\ UNCHANGED <<conversation_histories, session_id, user_message,
                   messages, tool_calls, idx, full_response, chunks, sliced,
                   tool_trace, history_at_start, counters>>

\* agent.py:527 / 562
YieldDone(t) ==
    /\ pc[t] = "yield_done"
    /\ \/ ClientGone(t)
       \/ /\ events' = [events EXCEPT ![t] = Append(@, DoneEvent)]
          /\ Finish(t, "done")
    /\ UNCHANGED <<conversation_histories, session_id, user_message,
                   messages, tool_calls, idx, full_response, chunks, sliced,
                   tool_trace, history_at_start, counters>>

\* faulty variant: /clear answers success and leaves the conversation as it is
clear_chat_keeps(t, s) ==
    /\ Free(t)
    /\ clears < MaxClears
    /\ clears' = clears + 1
    /\ UNCHANGED conversation_histories
    /\ pc' = [pc EXCEPT ![t] = "idle"]
    /\ outcome' = [outcome EXCEPT ![t] = None]
    /\ session_id' = [session_id EXCEPT ![t] = s]
    /\ user_message' = [user_message EXCEPT ![t] = <<>>]
    /\ messages' = [messages EXCEPT ![t] = <<>>]
    /\ tool_calls' = [tool_calls EXCEPT ![t] = <<>>]
    /\ idx' = [idx EXCEPT ![t] = 0]
    /\ full_response' = [full_response EXCEPT ![t] = <<>>]
    /\ events' = [events EXCEPT ![t] = <<>>]
    /\ tool_trace' = [tool_trace EXCEPT ![t] = <<>>]
    /\ history_at_start' = [history_at_start EXCEPT ![t] = Stored(s)]
    /\ UNCHANGED <<chunks, sliced, submits, tool_turns, helper_vars>>

\* agent.py:573-592: a thread takes a /clear request of session s
\* (session_id, line 578) and answers it; what the thread kept of its
\* previous request is gone.  history_at_start keeps the conversation the
\* request found.
clear_chat(t, s) ==
    /\ Free(t)
    /\ clears < MaxClears
    /\ clears' = clears + 1
    /\ IF s \in DOMAIN conversation_histories
       THEN SetHistory(s, <<>>)
       ELSE UNCHANGED conversation_histories
    /\ pc' = [pc EXCEPT ![t] = "idle"]
    /\ outcome' = [outcome EXCEPT ![t] = None]
    /\ session_id' = [session_id EXCEPT ![t] = s]
    /\ user_message' = [user_message EXCEPT ![t] = <<>>]
    /\ messages' = [messages EXCEPT ![t] = <<>>]
    /\ tool_calls' = [tool_calls EXCEPT ![t] = <<>>]
    /\ idx' = [idx EXCEPT ![t] = 0]
    /\ full_response' = [full_response EXCEPT ![t] = <<>>]
    /\ events' = [events EXCEPT ![t] = <<>>]
    /\ tool_trace' = [tool_trace EXCEPT ![t] = <<>>]
    /\ history_at_start' = [history_at_start EXCEPT ![t] = Stored(s)]
    /\ UNCHANGED <<chunks, sliced, submits, tool_turns, helper_vars>>

Step(t) ==
    \/ \E s \in SessionsOf(t) : \E text \in {<<>>, Utterance(t)} :
          Receive(t, s, text)
    \/ InitHistory(t)
    \/ BuildMessages(t)
    \/ CallLLM(t)
    \/ DirectCall(t)
    \/ ToolStatus(t)
    \/ ToolExec(t)
    \/ FinalCall(t)
    \/ DirectStatus(t)
    \/ StreamChunk(t)
    \/ StreamFail(t)
    \/ AppendUser(t)
    \/ AppendAssistant(t)
    \/ LimitCheck(t)
    \/ LimitWrite(t)
    \/ YieldDone(t)
    \/ \E s \in SessionsOf(t) : clear_chat(t, s)

\* the threaded server: handler threads interleave
Next == \E t \in Requests : Step(t)

Spec == Init /\ [][Next]_vars

\* one handler thread: requests are served one after the other
NextSerial == Step("r1")

SpecSerial == Init /\ [][NextSerial]_vars

\* ------------------------------------------------------------------------
\* The gcloud helper, src/gcloud-helper/helper.py
\* ------------------------------------------------------------------------

\* helper.py:7-13
ALLOWED_COMMANDS ==
    [name \in {"list_instances", "list_zones", "list_regions",
               "list_machine_types", "describe_project"} |->
        CASE name = "list_instances" ->
                 <<"gcloud", "compute", "instances", "list", "--format=json">>
          [] name = "list_zones" ->
                 <<"gcloud", "compute", "zones", "list", "--format=json">>
          [] name = "list_regions" ->
                 <<"gcloud", "compute", "regions", "list", "--format=json">>
          [] name = "list_machine_types" ->
                 <<"gcloud", "compute", "machine-types", "list",
                   "--format=json">>
          [] name = "describe_project" ->
                 <<"gcloud", "compute", "project-info", "describe",
                   "--format=json">>]

\* JSON values a client may send as 'command': strings (names of the
\* table, other names, a name with shell text after it), null, which is
\* also what data.get gives when the key is absent, and an array
JsonString(text) == [type |-> "str", v |-> text]

JsonNull == [type |-> "null", v |-> ""]

JsonArray(text) == [type |-> "list", v |-> text]

CommandValues ==
    {JsonString(name) : name \in DOMAIN ALLOWED_COMMANDS}
    \cup {JsonString("delete_instance"), JsonString("gcloud"),
          JsonString("list_instances; rm -rf /"), JsonNull,
          JsonArray("list_instances")}

\* request bodies: a JSON object with its 'command', or JSON that is not
\* an object (data.get raises)
Bodies ==
    {[object |-> TRUE, command |-> c] : c \in CommandValues}
    \cup {[object |-> FALSE, command |-> JsonNull]}

\* python can hash strings and None; hashing a list raises TypeError
Hashable(value) == value.type \in {"str", "null"}

\* faulty variant: a name is accepted when it begins with a name of the table
\* (here: the text up to the first ';')
InAllowedPrefix(value) ==
    /\ value.type = "str"
    /\ \/ value.v \in DOMAIN ALLOWED_COMMANDS
       \/ value.v = "list_instances; rm -rf /"

\* helper.py:27, "command_name in ALLOWED_COMMANDS" for a hashable value
InAllowed(value) ==
    value.type = "str" /\ value.v \in DOMAIN ALLOWED_COMMANDS

Respond(status, body) ==
    /\ response' = [status |-> status, body |-> body]
    /\ helper_pc' = "responded"

\* helper.py:21-25: the handler takes a request
HelperReceive(body) ==
    /\ helper_pc \in {"idle", "responded"}
    /\ executes < MaxExecutes
    /\ executes' = executes + 1
    /\ data' = body
    /\ command' = <<>>
    /\ response' = None
    /\ helper_pc' = "check"
    /\ UNCHANGED <<subprocess_runs, agent_vars>>

\* helper.py:25-30 and 42-43: the test and the lookup.  data.get on a body
\* that is not an object, the hashing of an unhashable value and the
\* subscript with a key the table does not have raise, which the handler
\* answers with 500.
HelperCheck ==
    /\ helper_pc = "check"
    /\ IF ~data.object
       THEN Respond(500, "AttributeError") /\ UNCHANGED command
       ELSE IF ~Hashable(data.command)
       THEN Respond(500, "TypeError") /\ UNCHANGED command
       ELSE IF ~InAllowed(data.command)
       THEN Respond(403, "Command not allowed") /\ UNCHANGED command
       ELSE IF data.command.v \notin DOMAIN ALLOWED_COMMANDS
       THEN Respond(500, "KeyError") /\ UNCHANGED command
       ELSE /\ command' = ALLOWED_COMMANDS[data.command.v]
            /\ helper_pc' = "run"
            /\ UNCHANGED response
    /\ UNCHANGED <<data, subprocess_runs, executes, agent_vars>>

\* helper.py:31-43: subprocess.run with the vector, and the answer: the
\* output (parsed when it is JSON), the error text of a failed command, or
\* the text of an exception (timeout, gcloud not installed)
HelperRun ==
    /\ helper_pc = "run"
    /\ subprocess_runs' = Append(subprocess_runs, command)
    /\ \/ Respond(200, "output_json")
       \/ Respond(200, "output_text")
       \/ Respond(500, "stderr")
       \/ Respond(500, "TimeoutExpired")
       \/ Respond(500, "FileNotFoundError")
    /\ UNCHANGED <<data, command, executes, agent_vars>>

NextHelper ==
    \/ \E body \in Bodies : HelperReceive(body)
    \/ HelperCheck
    \/ HelperRun

SpecHelper == Init /\ [][NextHelper]_vars

\* The steps of a request the handler itself takes once the request is
\* accepted: every model call and every tool handler returns or fails, the
\* stream of a completion ends, and the server goes on pulling events from
\* the generator.
Progress(t) ==
    \/ InitHistory(t)
    \/ BuildMessages(t)
    \/ CallLLM(t)
    \/ DirectCall(t)
    \/ ToolStatus(t)
    \/ ToolExec(t)
    \/ FinalCall(t)
    \/ DirectStatus(t)
    \/ StreamChunk(t)
    \/ StreamFail(t)
    \/ AppendUser(t)
    \/ AppendAssistant(t)
    \/ LimitCheck(t)
    \/ LimitWrite(t)
    \/ YieldDone(t)

\* one handler thread that is not held up for ever
SpecSerialFair == SpecSerial /\ WF_vars(Progress("r1"))

\* ------------------------------------------------------------------------
\* Vocabulary of the properties
\* ------------------------------------------------------------------------

\* the request holds a snapshot of the conversation or is writing to it
InTurn(t) ==
    pc[t] \in {"call_llm", "direct_call", "tool_status", "tool_loop",
               "direct_status", "stream", "append_assistant", "limit",
               "limit_write"}

\* the request has begun to write its turn to the store and has not ended
Committing(t) == pc[t] \in {"append_assistant", "limit", "limit_write"}

Ended(t, how) == pc[t] = "finished" /\ outcome[t] = how

\* the tools a status event announces
AnnouncedTools(event) ==
    IF event.kind = "reasoning" /\ Head(event.data) = "Calling tool:"
    THEN Tail(event.data) ELSE <<>>

\* the request's stream began with a status event naming tools
ToolPath(t) == events[t] # <<>> /\ AnnouncedTools(events[t][1]) # <<>>

\* user, assistant, user, assistant, ...
PairedLog(history) ==
    /\ Len(history) % 2 = 0
    /\ \A i \in 1..Len(history) :
          history[i].role = IF i % 2 = 1 THEN "user" ELSE "assistant"

Malformed(tool_call) == ~json_loads(tool_call.arguments).ok

\* ------------------------------------------------------------------------
\* C1.  Per-session mutual exclusion: while one request of a session is
\* writing its turn to the conversation, no other request of that session
\* holds a snapshot of the conversation or writes to it.
\* The handler takes no lock: TLC finds this violated.
\* ------------------------------------------------------------------------
C1_MutualExclusion ==
    \A t1, t2 \in Requests :
        (t1 # t2 /\ session_id[t1] = session_id[t2])
            => ~(Committing(t1) /\ InTurn(t2))

\* ------------------------------------------------------------------------
\* C2.  Cancellation is all-or-nothing: a request whose client cancelled
\* before the done event reached it leaves the session's conversation
\* exactly as it was when the turn began.  (Checked with one handler
\* thread, so that nothing else writes to the conversation meanwhile.)
\* The commit precedes the yield of done, and a client that went away after
\* the last delivered event is noticed only at that yield: TLC finds this
\* violated.
\* ------------------------------------------------------------------------
C2_CancelLeavesConversation ==
    \A t \in Requests :
        Ended(t, "aborted") => Stored(session_id[t]) = history_at_start[t]

ToolRounds(history) ==
    Cardinality({i \in 1..Len(history) : "tool_calls" \in DOMAIN history[i]})

RECURSIVE StreamedText(_)
StreamedText(evs) ==
    IF evs = <<>> THEN <<>>
    ELSE (IF Head(evs).kind = "content" THEN Head(evs).data ELSE <<>>)
         \o StreamedText(Tail(evs))

OneToolTurnDone(t) ==
    Ended(t, "done") /\ ToolPath(t) /\ Len(AnnouncedTools(events[t][1])) = 1

\* As claimed: the turn appends user, assistant(toolCalls), tool(result),
\* assistant(final) to the stored conversation (stated where the four
\* fit under the retention limit).  TLC finds this violated.
C4_FourMessagesCommitted ==
    \A t \in Requests :
        (OneToolTurnDone(t)
            /\ Len(history_at_start[t]) + 4 <= RetentionLimit)
        => LET h == Stored(session_id[t])
               n == Len(history_at_start[t])
           IN  /\ Len(h) = n + 4
               /\ h[n + 1].role = "user"
               /\ h[n + 2].role = "assistant"
               /\ h[n + 3].role = "tool"
               /\ h[n + 4].role = "assistant"

\* As amended: the turn commits exactly two messages, the user's message
\* and the assistant message with the streamed final text, in that order
\* (then the retention limit applies); the assistant(toolCalls) and
\* tool(result) messages follow the user's message in the working history
\* of the request only.
C4_PairCommitted ==
    \A t \in Requests :
        /\ OneToolTurnDone(t) =>
              LET h == Stored(session_id[t])
                  grown == history_at_start[t]
                             \o <<[role |-> "user",
                                   content |-> user_message[t]],
                                  [role |-> "assistant",
                                   content |-> StreamedText(events[t])]>>
                  drop == IF Len(grown) > RetentionLimit
                          THEN Len(grown) - RetentionLimit ELSE 0
              IN  /\ Len(h) = Len(grown) - drop
                  /\ \A i \in 1..Len(h) : h[i] = grown[i + drop]
        /\ (pc[t] = "tool_loop" /\ Len(tool_calls[t]) = 1 /\ idx[t] = 2) =>
              LET n == Len(messages[t])
              IN  /\ n >= 4
                  /\ messages[t][n - 2] =
                         [role |-> "user", content |-> user_message[t]]
                  /\ messages[t][n - 1].role = "assistant"
                  /\ messages[t][n - 1].tool_calls = tool_calls[t]
                  /\ messages[t][n].role = "tool"
                  /\ messages[t][n].tool_call_id = tool_calls[t][1].id

C4_Witness ==
    \E t \in Requests :
        OneToolTurnDone(t) /\ StreamedText(events[t]) # <<>>

\* ------------------------------------------------------------------------
\* C5.  Paired commit: whenever no request is in flight, every stored
\* conversation consists of (user, assistant) pairs.
\* With a /clear between the two appends of a commit the assistant message
\* is stored alone (the missing lock of C1): TLC finds this violated.
\* ------------------------------------------------------------------------
C5_PairedCommit ==
    (\A t \in Requests : Free(t))
        => \A s \in DOMAIN conversation_histories :
              PairedLog(conversation_histories[s])

\* ------------------------------------------------------------------------
\* C6.  Malformed tool arguments do not abort the turn: a request whose
\* model response carries a tool call with an unparsable payload does not
\* end with a broken stream.
\* json.loads raises inside the generator: TLC finds this violated.
\* ------------------------------------------------------------------------
C6_MalformedArgsRecovered ==
    \A t \in Requests :
        (\E i \in 1..Len(tool_calls[t]) : Malformed(tool_calls[t][i]))
            => ~Ended(t, "stream_error")

\* ------------------------------------------------------------------------
\* C7.  Retention bound: whenever no request of a session is in the middle
\* of writing its turn (between its first append and the end of its limit
\* step), that session's stored conversation has at most 20 messages.
\* ------------------------------------------------------------------------
C7_RetentionBound ==
    \A s \in DOMAIN conversation_histories :
        (\A t \in Requests : ~(session_id[t] = s /\ Committing(t)))
            => Len(conversation_histories[s]) <= RetentionLimit

\* a request has ended with done, the limit step has cut the conversation
\* of s1 to 20 messages and its two oldest messages are gone
C7_Witness ==
    /\ \E t \in Requests : Ended(t, "done") /\ session_id[t] = "s1"
    /\ \A t \in Requests : Free(t)
    /\ Len(Stored("s1")) = RetentionLimit
    /\ Stored("s1")[1].content = <<HistTokens[3]>>

\* ------------------------------------------------------------------------
\* C8.  Window bound: the stored messages in the request of every model
\* call are at most 10; when the request's messages are built they are the
\* last min(10, n) of the n stored messages, in order; and they stay the
\* same for every later model call of the turn.
\* ------------------------------------------------------------------------

\* the turn's own user message is the last user message of a working
\* history: what follows it are the tool-call and tool messages
LastUserIndex(history) ==
    CHOOSE i \in 1..Len(history) :
        /\ history[i].role = "user"
        /\ \A j \in (i + 1)..Len(history) : history[j].role # "user"

\* what a working history holds of the stored conversation
StoredPart(history) == SubSeq(history, 2, LastUserIndex(history) - 1)

\* the request about to be sent, where the thread stands at a model call
AtModelCall(t) ==
    \/ pc[t] \in {"call_llm", "direct_call"}
    \/ pc[t] = "tool_loop" /\ idx[t] > Len(tool_calls[t])

ModelRequest(t) ==
    IF pc[t] = "call_llm" THEN DecisionRequest(t)
    ELSE IF pc[t] = "direct_call" THEN DirectRequest(t)
    ELSE FinalRequest(t)

C8_WindowBound ==
    /\ [](\A t \in Requests :
            AtModelCall(t) =>
               /\ ModelRequest(t).messages[1].role = "system"
               /\ Len(StoredPart(ModelRequest(t).messages)) <= WindowSize)
    /\ [][\A t \in Requests :
            /\ (pc[t] = "build" /\ pc'[t] = "call_llm") =>
                  LET h == conversation_histories[session_id[t]]
                      part == StoredPart(messages'[t])
                      n == IF Len(h) < WindowSize THEN Len(h) ELSE WindowSize
                  IN  /\ Len(part) = n
                      /\ \A i \in 1..n : part[i] = h[Len(h) - n + i]
            /\ (messages[t] # <<>> /\ messages'[t] # <<>>) =>
                  StoredPart(messages'[t]) = StoredPart(messages[t])]_vars

\* a model call with 10 stored messages while more than 10 are stored
C8_Witness ==
    \E t \in Requests :
        /\ AtModelCall(t)
        /\ pc[t] = "tool_loop"
        /\ Len(StoredPart(ModelRequest(t).messages)) = WindowSize
        /\ Len(Stored(session_id[t])) > WindowSize

\* ------------------------------------------------------------------------
\* C9.  Tool-call ordering: while the tool loop runs, the executor has
\* been invoked on exactly the calls before the loop position, in the
\* order of the response; the working history holds, after the assistant
\* message recording the calls, one tool message per executed call, in
\* that order, each carrying its call's id; and the loop is left for the
\* final model call only when every call has its result.
\* ------------------------------------------------------------------------
C9_ToolCallOrdering ==
    /\ [](\A t \in Requests :
            pc[t] = "tool_loop" =>
               LET n == idx[t] - 1
                   base == Len(messages[t]) - n
               IN  /\ n \in 0..Len(tool_calls[t])
                   /\ Len(tool_trace[t]) = n
                   /\ base >= 1
                   /\ messages[t][base].role = "assistant"
                   /\ messages[t][base].tool_calls = tool_calls[t]
                   /\ \A i \in 1..n :
                        /\ tool_trace[t][i].id = tool_calls[t][i].id
                        /\ tool_trace[t][i].name = tool_calls[t][i].name
                        /\ messages[t][base + i].role = "tool"
                        /\ messages[t][base + i].tool_call_id
                               = tool_calls[t][i].id)
    /\ [][\A t \in Requests :
            (pc[t] = "tool_loop" /\ pc'[t] = "stream") =>
               /\ Len(tool_trace[t]) = Len(tool_calls[t])
               /\ \A i \in 1..Len(tool_calls[t]) :
                     \E j \in 1..Len(messages[t]) :
                        /\ messages[t][j].role = "tool"
                        /\ messages[t][j].tool_call_id = tool_calls[t][i].id]_vars

\* both calls of a two-call response have been executed
C9_Witness ==
    \E t \in Requests :
        pc[t] = "tool_loop" /\ Len(tool_calls[t]) = 2 /\ idx[t] = 3

\* ------------------------------------------------------------------------
\* C10.  Unknown tool is a soft failure: the loop iteration of a call
\* whose name is not registered (and whose arguments parse) appends a tool
\* message with the unknown-tool notice under the call's id, makes no
\* outbound call, and leaves the request in the loop at the next call.
\* ------------------------------------------------------------------------
C10_UnknownToolSoftFailure ==
    [][\A t \in Requests :
         (/\ pc[t] = "tool_loop"
          /\ idx[t] <= Len(tool_calls[t])
          /\ tool_calls[t][idx[t]].name \notin RegisteredTools
          /\ ~Malformed(tool_calls[t][idx[t]])
          /\ <<pc[t], idx[t]>> # <<pc'[t], idx'[t]>>)
         => LET call == tool_calls[t][idx[t]]
            IN  /\ pc'[t] = "tool_loop"
                /\ idx'[t] = idx[t] + 1
                /\ messages'[t] =
                      Append(messages[t],
                             [role |-> "tool", tool_call_id |-> call.id,
                              content |-> <<"I don't have the capability",
                                            call.name>>])
                /\ tool_trace'[t] =
                      Append(tool_trace[t],
                             [id |-> call.id, name |-> call.name,
                              outbound |-> FALSE])]_vars

\* an unknown tool has been answered and the turn has gone on to stream
\* its final answer
C10_Witness ==
    \E t \in Requests :
        /\ pc[t] = "stream"
        /\ ToolPath(t)
        /\ \E i \in 1..Len(AnnouncedTools(events[t][1])) :
              AnnouncedTools(events[t][1])[i] \notin RegisteredTools
        /\ full_response[t] # <<>>

\* ------------------------------------------------------------------------
\* C11.  Direct-answer turn (one handler thread): when the tool-decision
\* response carries no tool calls, the executor is not invoked at any step
\* of the turn; a turn that ends with done has given the client one status
\* event, which announces no tool (its text is the fixed notice of a
\* direct response), then content events only, then one done event; and
\* the conversation has gained two messages, the user's message and the
\* assistant message whose text is the concatenation of the content
\* events (after which the retention limit applies).
\* ------------------------------------------------------------------------

\* the turn took the branch without tool calls
DirectPath(t) ==
    \/ pc[t] \in {"direct_call", "direct_status"}
    \/ /\ pc[t] \in {"stream", "append_assistant", "limit", "limit_write",
                      "yield_done"}
       /\ ~ToolPath(t)

C12_EventOrdering ==
    /\ [](\A t \in Requests :
            LET n == Len(events[t])
            IN  /\ \A i \in 1..n :
                     /\ (events[t][i].kind = "reasoning") <=> (i = 1)
                     /\ events[t][i].kind = "done"
                           => (i = n /\ Ended(t, "done"))
                     /\ events[t][i].kind \in {"reasoning", "content", "done"}
                /\ Ended(t, "done")
                     => (n >= 2 /\ events[t][n].kind = "done"))
    /\ [][\A t \in Requests :
            /\ (events[t] # <<>> /\ events[t][Len(events[t])].kind = "done")
                  => events'[t] \in {events[t], <<>>}
            /\ (pc[t] = "tool_status" /\ events'[t] # events[t])
                  => /\ Len(events'[t]) = 1
                     /\ AnnouncedTools(events'[t][1])
                           = ToolNames(tool_calls[t])]_vars

\* a stream of a turn with tool calls has run to completion: status, two
\* content deltas, done
C12_Witness ==
    \E t \in Requests :
        /\ Ended(t, "done")
        /\ ToolPath(t)
        /\ Len(events[t]) = 4

\* ------------------------------------------------------------------------
\* C13.  Commit timing and content (one handler thread): a session's
\* conversation changes only by a turn's commit steps, which come after
\* the stream has ended, or by /clear between requests; once a turn has
\* begun to commit it emits no content delta, only the done event, and it
\* does not commit a second time; and when the turn is about to emit done
\* the conversation is the one from the start of the turn followed by the
\* user's message and an assistant message whose text is the concatenation,
\* in order, of the content deltas emitted (cut to the retention limit).
\* ------------------------------------------------------------------------

\* the request is past the end of its stream
PastStream(t) ==
    pc[t] \in {"append_assistant", "limit", "limit_write", "yield_done"}

C13_CommitTiming ==
    /\ [](\A t \in Requests :
            /\ (pc[t] \in {"call_llm", "direct_call", "tool_status",
                            "tool_loop", "direct_status", "stream"})
                  => Stored(session_id[t]) = history_at_start[t]
            /\ PastStream(t) => full_response[t] = StreamedText(events[t])
            /\ pc[t] = "yield_done"
                  => Stored(session_id[t]) =
                        LastN(history_at_start[t]
                                \o <<[role |-> "user",
                                      content |-> user_message[t]],
                                     [role |-> "assistant",
                                      content |-> StreamedText(events[t])]>>,
                              RetentionLimit))
    /\ [][\A t \in Requests :
            /\ (\E s \in Sessions : Stored(s)' # Stored(s))
                  => \/ pc[t] \in {"stream", "append_assistant", "limit_write"}
                     \/ Free(t)
            /\ (pc[t] = "stream" /\ Stored(session_id[t])' # Stored(session_id[t]))
                  => pc'[t] = "append_assistant"
            /\ PastStream(t)
                  => /\ events'[t] \in {events[t], Append(events[t], DoneEvent)}
                     /\ pc'[t] \in {"append_assistant", "limit", "limit_write",
                                    "yield_done", "finished"}]_vars

\* a turn that streamed two deltas has committed and is about to emit done
C13_Witness ==
    \E t \in Requests :
        /\ pc[t] = "yield_done"
        /\ Len(StreamedText(events[t])) = 2
        /\ Stored(session_id[t]) # history_at_start[t]

\* ------------------------------------------------------------------------
\* C14.  clear resets a session (one handler thread): a /clear of a
\* session leaves that session's conversation with 0 messages, whatever it
\* held; and a submit that finds the conversation empty, as after /clear,
\* hands the model no stored message (the request is the system prompt and
\* the user's message, then the turn's own tool messages) and, when it has
\* committed, leaves the conversation with exactly the turn's user and
\* assistant messages, whether the session's entry existed or not.
\* ------------------------------------------------------------------------
C14_ClearResets ==
    /\ [](\A t \in Requests :
            /\ (AtModelCall(t) /\ history_at_start[t] = <<>>)
                  => /\ StoredPart(ModelRequest(t).messages) = <<>>
                     /\ ModelRequest(t).messages[2] =
                           [role |-> "user", content |-> user_message[t]]
            /\ ((pc[t] = "yield_done" \/ Ended(t, "done"))
                   /\ history_at_start[t] = <<>>)
                  => Stored(session_id[t]) =
                        <<[role |-> "user", content |-> user_message[t]],
                          [role |-> "assistant",
                           content |-> StreamedText(events[t])]>>)
    /\ [][\A t \in Requests : \A s \in Sessions :
            (clears' # clears /\ pc'[t] = "idle" /\ session_id'[t] = s
                /\ history_at_start'[t] = Stored(s))
              => Stored(s)' = <<>>]_vars

\* /clear has just emptied a session that held messages
C14_Witness ==
    \E t \in Requests :
        /\ pc[t] = "idle"
        /\ clears = 1
        /\ session_id[t] \in Sessions
        /\ Len(history_at_start[t]) >= 2
        /\ Stored(session_id[t]) = <<>>

\* ------------------------------------------------------------------------
\* C15.  Model failure commits nothing (one handler thread): when the
\* tool-decision call fails the request ends with the error outcome (the
\* handler answers 500); no tool has been executed, the client has
\* received no stream event, and the session's conversation is what it was
\* when the turn began.
\* ------------------------------------------------------------------------
C15_ModelFailureCommitsNothing ==
    /\ [](\A t \in Requests :
            Ended(t, "error")
              => /\ events[t] = <<>>
                 /\ tool_trace[t] = <<>>
                 /\ tool_calls[t] = <<>>
                 /\ Stored(session_id[t]) = history_at_start[t])
    /\ [][\A t \in Requests :
            (pc[t] = "call_llm" /\ pc'[t] = "finished")
              => /\ outcome'[t] = "error"
                 /\ \A s \in Sessions : Stored(s)' = Stored(s)]_vars

\* the tool-decision call of a turn on a session that holds messages has
\* failed
C15_Witness ==
    \E t \in Requests :
        /\ Ended(t, "error")
        /\ messages[t] # <<>>
        /\ Len(Stored(session_id[t])) >= 2

\* ------------------------------------------------------------------------
\* C16.  Every tool call is consumed exactly once: when a request that
\* was not cancelled has ended while it still holds the tool calls of the
\* model's response, the executor has been invoked exactly once for each
\* of them and the working history holds exactly one tool message with
\* that call's identifier.
\* A call whose arguments do not parse ends the generator (C6): that call
\* and the calls after it are never executed and get no tool message.
\* TLC finds this violated.
\* ------------------------------------------------------------------------
C16_EveryCallConsumedOnce ==
    \A t \in Requests :
        (pc[t] = "finished" /\ outcome[t] # "aborted" /\ tool_calls[t] # <<>>)
          => \A i \in 1..Len(tool_calls[t]) :
                /\ Cardinality({j \in 1..Len(tool_trace[t]) :
                       tool_trace[t][j].id = tool_calls[t][i].id}) = 1
                /\ Cardinality({j \in 1..Len(messages[t]) :
                       /\ messages[t][j].role = "tool"
                       /\ messages[t][j].tool_call_id = tool_calls[t][i].id})
                     = 1

\* ------------------------------------------------------------------------
\* C17.  Session isolation (handler threads interleaving): a step of a
\* request changes no conversation but that of the request's own session;
\* the stored messages a request hands to the model are those of its own
\* session; and what belongs to one session (its stored messages, the
\* text its clients posted) appears neither in the conversation of another
\* session nor in the working history of a request of another session.
\* Here session s1 alone starts with stored messages and request r1, whose
\* text differs from r2's, only ever uses s1.
\* ------------------------------------------------------------------------

\* a message that belongs to session s1 alone
OnlyOfS1(message) ==
    \/ message.content = Utterance("r1")
    \/ \E k \in 1..Len(HistTokens) : message.content = <<HistTokens[k]>>

C17_SessionIsolation ==
    /\ [](/\ \A i \in 1..Len(Stored("s2")) : ~OnlyOfS1(Stored("s2")[i])
          /\ \A t \in Requests :
                session_id[t] = "s2"
                  => \A i \in 1..Len(messages[t]) : ~OnlyOfS1(messages[t][i]))
    /\ [][\A t \in Requests :
            /\ \A s \in Sessions :
                  (Step(t) /\ Stored(s)' # Stored(s)) => session_id'[t] = s
            /\ (pc[t] = "build" /\ pc'[t] = "call_llm")
                  => StoredPart(messages'[t])
                       = LastN(Stored(session_id[t]), WindowSize)]_vars

\* a turn of session s2 has committed while a turn of session s1, which
\* holds messages, is in flight
C17_Witness ==
    /\ session_id["r1"] = "s1"
    /\ session_id["r2"] = "s2"
    /\ InTurn("r1")
    /\ messages["r1"] # <<>>
    /\ Ended("r2", "done")
    /\ Len(Stored("s2")) = 2
    /\ Len(Stored("s1")) >= 2

C19_StreamingWithoutTools ==
    \A t \in Requests :
        (AtModelCall(t) /\ ModelRequest(t).stream) => ~ModelRequest(t).tools

\* ------------------------------------------------------------------------
\* C20.  FIFO eviction (one handler thread): when the two appends of a
\* commit have made a conversation longer than 20, the limit step leaves
\* exactly its last 20 messages, in their order and unaltered, so that
\* only the oldest are gone; a conversation of 20 or fewer is left as it
\* is.
\* ------------------------------------------------------------------------
C20_FifoEviction ==
    [][\A t \in Requests : \A s \in Sessions :
         /\ (pc[t] = "limit" /\ pc'[t] # "limit" /\ session_id[t] = s)
               => /\ Stored(s)' = Stored(s)
                  /\ (pc'[t] = "yield_done") <=> (Len(Stored(s)) <= RetentionLimit)
         /\ (pc[t] = "limit_write" /\ pc'[t] = "yield_done" /\ session_id[t] = s)
               => LET before == Stored(s)
                      after == Stored(s)'
                      gone == Len(before) - RetentionLimit
                  IN  /\ gone > 0
                      /\ Len(after) = RetentionLimit
                      /\ \A i \in 1..RetentionLimit :
                            after[i] = before[gone + i]]_vars

\* a commit on a conversation of 20 messages has been cut: the two oldest
\* messages are gone and the turn's pair is at the end
C20_Witness ==
    \E t \in Requests :
        /\ pc[t] = "yield_done"
        /\ Len(history_at_start[t]) = RetentionLimit
        /\ Len(Stored(session_id[t])) = RetentionLimit
        /\ Stored(session_id[t])[1] = history_at_start[t][3]
        /\ Stored(session_id[t])[RetentionLimit - 1].content = user_message[t]

\* ------------------------------------------------------------------------
\* C21.  Alternation (one handler thread, so turns do not overlap):
\* whatever submits have completed, failed or been cancelled and whatever
\* clears have run, every stored conversation has even length and
\* alternates user, assistant from a user message on, except between the
\* two appends of a commit, where the user's message is the last; this
\* holds before and after the cut to 20; and the stored messages of every
\* request to the model are of even number and, when there are any, start
\* with a user message.
\* ------------------------------------------------------------------------
C21_Alternation ==
    /\ \A s \in DOMAIN conversation_histories :
          IF \E t \in Requests :
                session_id[t] = s /\ pc[t] = "append_assistant"
          THEN LET h == conversation_histories[s]
               IN  /\ Len(h) % 2 = 1
                   /\ h[Len(h)].role = "user"
                   /\ PairedLog(SubSeq(h, 1, Len(h) - 1))
          ELSE PairedLog(conversation_histories[s])
    /\ \A t \in Requests :
          AtModelCall(t) =>
             LET part == StoredPart(ModelRequest(t).messages)
             IN  /\ Len(part) % 2 = 0
                 /\ part # <<>> => part[1].role = "user"
                 /\ PairedLog(part)

\* the second turn of a session is at a model call: the conversation holds
\* 20 messages after the first turn's commit and the model is handed the
\* last 10
C21_Witness ==
    \E t \in Requests :
        /\ AtModelCall(t)
        /\ submits = 2
        /\ Len(Stored(session_id[t])) = RetentionLimit
        /\ Len(StoredPart(ModelRequest(t).messages)) = WindowSize
        /\ StoredPart(ModelRequest(t).messages)[1].role = "user"
        /\ Stored(session_id[t])[RetentionLimit - 1].content = Utterance(t)

\* ------------------------------------------------------------------------
\* C22.  Termination (one handler thread that is not held up for ever):
\* every accepted request ends, with exactly one of done, a request-level
\* error (400 or 500) or a stream that stops short of done (broken off by
\* an exception in the generator or by the client going away).  Every step
\* of a request moves it forward in the order of the handler's code, the
\* tool loop by one call at a time, so that the tool-decision call, the
\* tool round and the streaming call (after the round, or instead of it)
\* are each passed once at most: two model calls and one tool round.
\* ------------------------------------------------------------------------

\* the position of a label in the handler's code
Rank(label) ==
    CASE label = "idle" -> 0
      [] label = "init_history" -> 1
      [] label = "build" -> 2
      [] label = "call_llm" -> 3
      [] label \in {"tool_status", "direct_call"} -> 4
      [] label \in {"tool_loop", "direct_status"} -> 5
      [] label = "stream" -> 6
      [] label = "append_assistant" -> 7
      [] label = "limit" -> 8
      [] label = "limit_write" -> 9
      [] label = "yield_done" -> 10
      [] label = "finished" -> 11

\* the request is at a call of the model: the tool-decision call, or one
\* of the two streaming calls
AtDecisionCall(t) == pc[t] = "call_llm"

AtStreamingCall(t) ==
    \/ pc[t] = "direct_call"
    \/ pc[t] = "tool_loop" /\ idx[t] > Len(tool_calls[t])

C22_Termination ==
    /\ \A t \in Requests : (~Free(t)) ~> (pc[t] = "finished")
    /\ [](\A t \in Requests :
            /\ (pc[t] = "finished")
                  <=> (outcome[t] \in {"done", "error", "bad_request",
                                       "stream_error", "aborted"})
            /\ (pc[t] # "finished") <=> (outcome[t] = None))
    /\ [][\A t \in Requests :
            /\ (pc[t] # pc'[t] /\ ~Free(t)) => Rank(pc'[t]) > Rank(pc[t])
            /\ (pc[t] = "tool_loop" /\ pc'[t] = "tool_loop" /\ idx'[t] # idx[t])
                  => (idx'[t] = idx[t] + 1 /\ idx[t] <= Len(tool_calls[t]))
            /\ AtDecisionCall(t) => ~AtDecisionCall(t)' \/ UNCHANGED vars
            /\ AtStreamingCall(t)
                  => \/ pc'[t] \in {"stream", "direct_status", "finished"}
                     \/ UNCHANGED vars]_vars

\* a turn with a tool round has made both its model calls and ended with
\* done
C22_Witness ==
    \E t \in Requests :
        /\ Ended(t, "done")
        /\ ToolPath(t)
        /\ submits = 2
        /\ StreamedText(events[t]) = <<>>

\* ------------------------------------------------------------------------
\* C23.  The gcloud helper runs table commands only: subprocess.run is
\* called only in a request whose 'command' is a string that is a key of
\* ALLOWED_COMMANDS, once, with exactly that key's argument vector; a
\* request whose command name is any other string, or is absent, is
\* answered 403 'Command not allowed'; and no request whose 'command' is
\* not a key (another name, no name, a value that is no name at all, a
\* body that is no object) starts a subprocess.
\* ------------------------------------------------------------------------

\* the request names a key of the table
NamesKey(body) ==
    /\ body.object
    /\ body.command.type = "str"
    /\ body.command.v \in DOMAIN ALLOWED_COMMANDS

\* the request carries a command name (a string, or none) that is no key
NamesOther(body) ==
    /\ body.object
    /\ body.command.type \in {"str", "null"}
    /\ ~NamesKey(body)

C23_OnlyAllowedCommandsRun ==
    /\ [](/\ \A i \in 1..Len(subprocess_runs) :
                \E name \in DOMAIN ALLOWED_COMMANDS :
                   subprocess_runs[i] = ALLOWED_COMMANDS[name]
          /\ Len(subprocess_runs) <= executes
          /\ (helper_pc = "responded" /\ NamesOther(data))
                => response = [status |-> 403, body |-> "Command not allowed"]
          /\ (helper_pc = "responded" /\ ~NamesKey(data))
                => response.status \in {403, 500})
    /\ [][/\ subprocess_runs' # subprocess_runs
               => /\ NamesKey(data)
                  /\ data' = data
                  /\ helper_pc = "run" /\ helper_pc' = "responded"
                  /\ subprocess_runs' =
                        Append(subprocess_runs,
                               ALLOWED_COMMANDS[data.command.v])
          /\ (helper_pc = "check" /\ ~NamesKey(data))
               => (subprocess_runs' = subprocess_runs /\ helper_pc' # "run")
          /\ (helper_pc = "check" /\ NamesKey(data) /\ helper_pc' # "check")
               => helper_pc' = "run"]_vars

\* list_zones has been run for a first request and a second request, whose
\* command is a name of the table followed by shell text, has been refused
\* without a subprocess
C23_Witness ==
    /\ helper_pc = "responded"
    /\ executes = 2
    /\ data = [object |-> TRUE,
               command |-> [type |-> "str", v |-> "list_instances; rm -rf /"]]
    /\ response.status = 403
    /\ subprocess_runs =
          <<<<"gcloud", "compute", "zones", "list", "--format=json">>>>

====
